---- MODULE Spec2Model ----
(***************************************************************************)
(* Model of the stors client (src/src/client.rs): the peer connection     *)
(* table, the dial tasks of run(), and the write tasks of write_to,        *)
(* write_many and broadcast, each write serialised by the per-connection   *)
(* mutex.  The byte stream a peer observes on a connection is kept byte    *)
(* by byte, every byte tagged with the write that produced it.             *)
(***************************************************************************)
EXTENDS Integers, Sequences, FiniteSets

\* ------------------------------------------------------------------ bounds
NumAddrs == 2      \* distinct socket addresses (ports) in play
MaxServers == 2    \* longest server_addresses vector
MaxRuns == 2       \* calls of run()
MaxCalls == 3      \* API calls on one client
MaxMsgLen == 1     \* longest message, in bytes
MaxTargets == 2    \* longest peer_addrs vector given to write_many

\* ------------------------------------------------------------ program data
\* b'\n', the frame delimiter (client.rs:115, DELIMITED_MSG = MSG ++ "\n").
Delimiter == 10
\* b'h', first byte of the test message "hello" (client.rs:114).
DataByte == 104

\* The bytes of a message: a message holds no unescaped newline (the wire
\* format's contract on what is handed to write).
Byte == {DataByte}
Addr == 1..NumAddrs

\* SocketAddr::to_string(): "host:port"; every address of the tests is on
\* 127.0.0.1 (gen.rs:34-37), the port tells them apart.
to_string(addr) == <<"127.0.0.1", addr>>

\* A key no SocketAddr prints as.
UnregisteredKey == <<"unregistered-address", 0>>
Keys == {to_string(a) : a \in Addr} \cup {UnregisteredKey}

SeqsUpTo(S, n) == UNION {[1..k -> S] : k \in 0..n}
Msgs == SeqsUpTo(Byte, MaxMsgLen)
\* The server_addresses vectors, up to renaming of the addresses: a vector
\* names its addresses 1, 2, .. in the order of their first occurrence.
ServerConfigs ==
    {v \in SeqsUpTo(Addr, MaxServers) :
        \A i \in DOMAIN v : v[i] = 1 \/ \E j \in 1..(i - 1) : v[j] = v[i] - 1}
TargetLists == SeqsUpTo(Keys, MaxTargets)

\* A Connection is identified by the dial task that created it:
\* <<run number, index into server_addresses>>.
Conn == (1..MaxRuns) \X (1..MaxServers)
\* A writer is <<call number, index of the write task in the call>>.
NoHolder == <<0, 0>>

VARIABLES
    server_addresses,  \* Client.server_addresses
    connections,       \* Client.connections: set of [key, conn] entries
    dials,             \* dials[r][i]: state of dial task i of the r-th run()
    runNo,             \* number of run() calls made
    callNo,            \* number of API calls made
    call,              \* the API call in progress (op = "idle" when none)
    tasks,             \* write tasks of the call in progress
    results,           \* results collected so far, in completion order
    ret,               \* what the last finished call returned
    lock,              \* lock[c]: writer holding the Mutex of connection c
    stream,            \* stream[c]: "none" | "open" | "hung" | "broken"
    received,          \* received[c]: bytes the peer has seen on c, tagged
    acquired,          \* acquired[c]: writers in lock-acquisition order
    msgOf              \* msgOf[n]: the message given to the n-th API call

\* The conversions of protocol/response.rs work on a value in hand: the
\* bytes given to Response::from, the Response given to into.
VARIABLES
    codecPc,           \* "off" | "value" | "bytes" | "decoded"
    wire,              \* the bytes in hand (a Vec<u8>), as JSON tokens
    resp,              \* the Response in hand
    origin             \* the Response the bytes in hand were encoded from

clientVars == <<server_addresses, connections, dials, runNo, callNo, call,
                tasks, results, ret, lock, stream, received, acquired, msgOf>>
codecVars == <<codecPc, wire, resp, origin>>
vars == <<server_addresses, connections, dials, runNo, callNo, call, tasks,
          results, ret, lock, stream, received, acquired, msgOf, codecVars>>

Idle == [op |-> "idle", msg |-> <<>>, keys |-> <<>>]
NoRet == [op |-> "none", status |-> "none", error |-> <<"none">>,
          keys |-> <<>>, msg |-> <<>>, results |-> <<>>]

\* No Response: the value in hand before a conversion produced one.
NoResponse ==
    [id |-> 0, outcome |-> [type |-> "none", value |-> <<>>,
                            was_modified |-> FALSE, msg |-> ""]]
CodecOff ==
    codecPc = "off" /\ wire = <<>> /\ resp = NoResponse /\ origin = NoResponse

\* Client::new: the peers are recorded, the table is empty.
NewClient ==
    /\ server_addresses \in ServerConfigs
    /\ connections = {}
    /\ dials = [r \in 1..MaxRuns |-> [i \in 1..MaxServers |-> "none"]]
    /\ runNo = 0
    /\ callNo = 0
    /\ call = Idle
    /\ tasks = <<>>
    /\ results = <<>>
    /\ ret = NoRet
    /\ lock = [c \in Conn |-> NoHolder]
    /\ stream = [c \in Conn |-> "none"]
    /\ received = [c \in Conn |-> <<>>]
    /\ acquired = [c \in Conn |-> <<>>]
    /\ msgOf = [n \in 1..MaxCalls |-> <<>>]

Init == NewClient /\ CodecOff

\* ------------------------------------------------------------------- run()
Running(r) == {i \in 1..Len(server_addresses) : dials[r][i] = "connecting"}
Panicked(r) == {i \in 1..Len(server_addresses) : dials[r][i] = "panicked"}

\* DashMap::insert(key, conn): the entry of the key, if any, is replaced.
InsertAfterClear(table, key, conn) == {[key |-> key, conn |-> conn]}
InsertKeepingOld(table, key, conn) == table \cup {[key |-> key, conn |-> conn]}
Insert(table, key, conn) ==
    {e \in table : e.key # key} \cup {[key |-> key, conn |-> conn]}

\* connection_tuples.into_iter().for_each(..): the Ok tuples are inserted in
\* the order of server_addresses, the Err ones are skipped.
RECURSIVE InsertTuples(_, _, _)
InsertTuples(table, r, i) ==
    IF i > Len(server_addresses) THEN table
    ELSE InsertTuples(
            IF dials[r][i] = "ok"
            THEN Insert(table, to_string(server_addresses[i]), <<r, i>>)
            ELSE table,
            r, i + 1)

\* try_join_all over the JoinHandles: ready with Err as soon as one handle
\* yields a JoinError, ready with Ok(vec) once every handle has yielded.
TryJoinAllFailed(r) == Panicked(r) # {}
TryJoinAllDone(r) == Panicked(r) = {} /\ Running(r) = {}

NewCall == call.op = "idle" /\ callNo < MaxCalls

\* run(), up to the first await: one dial task is spawned per address.
RunCall ==
    /\ NewCall
    /\ runNo < MaxRuns
    /\ runNo' = runNo + 1
    /\ callNo' = callNo + 1
    /\ dials' = [dials EXCEPT ![runNo + 1] =
                    [i \in 1..MaxServers |->
                        IF i <= Len(server_addresses) THEN "connecting"
                        ELSE "none"]]
    /\ call' = [op |-> "run", msg |-> <<>>, keys |-> <<>>]
    /\ tasks' = <<>>
    /\ results' = <<>>
    /\ UNCHANGED <<server_addresses, connections, ret, lock, stream,
                   received, acquired, msgOf,
                   codecVars>>

\* socket.connect(addr).await succeeds: the task yields Ok((addr, conn)).
DialConnect(r, i) ==
    /\ dials[r][i] = "connecting"
    /\ dials' = [dials EXCEPT ![r][i] = "ok"]
    /\ stream' = [stream EXCEPT ![<<r, i>>] = "open"]
    /\ UNCHANGED <<server_addresses, connections, runNo, callNo, call, tasks,
                   results, ret, lock, received, acquired,
                   msgOf,
                   codecVars>>

\* TcpSocket::new_v4()? or connect(addr).await? fails: the task yields Err.
DialError(r, i) ==
    /\ dials[r][i] = "connecting"
    /\ dials' = [dials EXCEPT ![r][i] = "err"]
    /\ UNCHANGED <<server_addresses, connections, runNo, callNo, call, tasks,
                   results, ret, lock, stream, received, acquired,
                   msgOf,
                   codecVars>>

\* The dial task panics: its JoinHandle yields a JoinError.
DialPanic(r, i) ==
    /\ dials[r][i] = "connecting"
    /\ dials' = [dials EXCEPT ![r][i] = "panicked"]
    /\ UNCHANGED <<server_addresses, connections, runNo, callNo, call, tasks,
                   results, ret, lock, stream, received, acquired,
                   msgOf,
                   codecVars>>

\* try_join_all(..).await yields Ok: the tuples are inserted, run() is Ok(()).
RunReturn ==
    /\ call.op = "run"
    /\ TryJoinAllDone(runNo)
    /\ connections' = InsertTuples(connections, runNo, 1)
    /\ ret' = [NoRet EXCEPT !.op = "run", !.status = "Ok"]
    /\ call' = Idle
    /\ UNCHANGED <<server_addresses, dials, runNo, callNo, tasks, results,
                   lock, stream, received, acquired,
                   msgOf,
                   codecVars>>

\* try_join_all(..).await? yields Err(JoinError): run() returns it at once;
\* the JoinHandles are dropped, which detaches the tasks still running.
RunAbort ==
    /\ call.op = "run"
    /\ TryJoinAllFailed(runNo)
    /\ ret' = [NoRet EXCEPT !.op = "run", !.status = "Err",
                            !.error = <<"JoinError">>]
    /\ call' = Idle
    /\ UNCHANGED <<server_addresses, connections, dials, runNo, callNo, tasks,
                   results, lock, stream, received, acquired,
                   msgOf,
                   codecVars>>

\* ------------------------------------------------------ Connection::write
\* Connection::write(msg): the message followed by one newline delimiter is
\* written to the output half and flushed.
Frame(msg) == Append(msg, Delimiter)

\* ---------------------------------------------------------- Client::write
\* self.connections.get(key): the connections stored under the key.
GetOrAny(key) ==
    IF \E e \in connections : e.key = key
    THEN {e.conn : e \in {x \in connections : x.key = key}}
    ELSE {e.conn : e \in connections}
Get(key) == {e.conn : e \in {x \in connections : x.key = key}}

\* conn_arc.lock().await is granted when no writer holds the connection.
NoMutex(c) == TRUE
GlobalMutex(c) == \A d \in Conn : lock[d] = NoHolder
LockFree(c) == lock[c] = NoHolder

\* The guard `conn` lives until conn.write(&msg).await has returned: it is
\* still held after `sent` of the frame's `len` bytes when sent < len.
GuardDroppedBeforeWrite(sent, len) == FALSE
GuardHeld(sent, len) == sent < len

Writer(i) == <<callNo, i>>
\* The MutexGuard `conn` is dropped when write returns, Ok or Err, or unwinds.
GuardLeaked(c, w) == lock
Release(c, w) == IF lock[c] = w THEN [lock EXCEPT ![c] = NoHolder] ELSE lock

\* The output of a write task seen through its JoinHandle, un-nested:
\* r.unwrap_or_else(|e| Err(e.into())).
Unwrap(out) ==
    CASE out = "Ok" -> "Ok"
      [] out = "IoErr" -> "Err(Io)"
      [] OTHER -> "Panic"
UnNest(out) ==
    CASE out = "Ok" -> "Ok"
      [] out = "IoErr" -> "Err(Io)"
      [] OTHER -> "Err(JoinError)"

\* What the caller gets from a write: a spawned task's output goes through
\* the JoinHandle and UnNest; write_to awaits the write inline, so a panic
\* unwinds into the caller.
Collected(out) ==
    IF call.op = "write_to"
    THEN (IF out = "Panicked" THEN "Panic" ELSE UnNest(out))
    ELSE UnNest(out)

NewTask(c) == [conn |-> c, pc |-> "waiting", sent |-> 0, out |-> "none"]

\* buffer_unordered yields the result of a task when the task completes:
\* the results are collected in completion order.
CollectInInputOrder(rs, r) ==
    SelectSeq(rs, LAMBDA x : x.task < r.task) \o <<r>>
        \o SelectSeq(rs, LAMBDA x : x.task > r.task)
Collect(rs, r) == Append(rs, r)

\* The write of task i ends with output `out`: the guard is dropped and the
\* result is collected.
Finish(i, out) ==
    /\ tasks' = [tasks EXCEPT ![i].pc = "done", ![i].out = out]
    /\ lock' = Release(tasks[i].conn, Writer(i))
    /\ results' = Collect(results, [task |-> i, res |-> Collected(out)])

\* let mut conn = conn_arc.lock().await;
LockAcquire(i) ==
    /\ i \in DOMAIN tasks
    /\ tasks[i].pc = "waiting"
    /\ LockFree(tasks[i].conn)
    /\ lock' = [lock EXCEPT ![tasks[i].conn] = Writer(i)]
    /\ acquired' = [acquired EXCEPT ![tasks[i].conn] = Append(@, Writer(i))]
    /\ tasks' = [tasks EXCEPT ![i].pc = "writing"]
    /\ UNCHANGED <<server_addresses, connections, dials, runNo, callNo, call,
                   results, ret, stream, received,
                   msgOf,
                   codecVars>>

\* conn.write(&msg).await: the stream takes the next byte of the frame; with
\* the last byte the write returns Ok(()).
WriteByte(i) ==
    /\ i \in DOMAIN tasks
    /\ tasks[i].pc = "writing"
    /\ stream[tasks[i].conn] = "open"
    /\ LET c == tasks[i].conn
           frame == Frame(call.msg)
           n == tasks[i].sent + 1
       IN /\ received' = [received EXCEPT ![c] =
                            Append(@, [w |-> Writer(i), b |-> frame[n]])]
          /\ IF n = Len(frame)
             THEN Finish(i, "Ok")
             ELSE /\ tasks' = [tasks EXCEPT ![i].sent = n]
                  /\ lock' = IF GuardHeld(n, Len(frame)) THEN lock
                             ELSE Release(c, Writer(i))
                  /\ UNCHANGED results
    /\ UNCHANGED <<server_addresses, connections, dials, runNo, callNo, call,
                   ret, stream, acquired,
                   msgOf,
                   codecVars>>

\* conn.write(&msg).await on a closed stream: the write returns Err(io).
WriteFail(i) ==
    /\ i \in DOMAIN tasks
    /\ tasks[i].pc = "writing"
    /\ stream[tasks[i].conn] = "broken"
    /\ Finish(i, "IoErr")
    /\ UNCHANGED <<server_addresses, connections, dials, runNo, callNo, call,
                   ret, stream, received, acquired,
                   msgOf,
                   codecVars>>

\* The write panics before a byte of its frame is out (the guard is dropped
\* by the unwinding).
WritePanic(i) ==
    /\ i \in DOMAIN tasks
    /\ tasks[i].pc = "writing"
    /\ tasks[i].sent = 0
    /\ Finish(i, "Panicked")
    /\ UNCHANGED <<server_addresses, connections, dials, runNo, callNo, call,
                   ret, stream, received, acquired,
                   msgOf,
                   codecVars>>

\* ------------------------------------------------------- Client::write_to
\* The connections write_to writes to: the one found under the key.
WriteToAnyPeer(key) ==
    IF Get(key) # {} THEN {e.conn : e \in connections} ELSE {}
WriteToTargets(key) == Get(key)

WriteToCall(key, msg) ==
    /\ NewCall
    /\ callNo' = callNo + 1
    /\ msgOf' = [msgOf EXCEPT ![callNo + 1] = msg]
    /\ results' = <<>>
    /\ IF WriteToTargets(key) # {}
       THEN /\ call' = [op |-> "write_to", msg |-> msg, keys |-> <<key>>]
            /\ tasks' = <<NewTask(CHOOSE c \in WriteToTargets(key) : TRUE)>>
            /\ UNCHANGED ret
       ELSE /\ call' = Idle
            /\ tasks' = <<>>
            /\ ret' = [NoRet EXCEPT !.op = "write_to", !.status = "Err",
                                    !.error = <<"NoPeerAtAddress", key>>,
                                    !.keys = <<key>>, !.msg = msg]
    /\ UNCHANGED <<server_addresses, connections, dials, runNo, lock, stream,
                   received, acquired,
                   codecVars>>

\* Self::write(..).await has finished: write_to returns its result.
WriteToReturn ==
    /\ call.op = "write_to"
    /\ tasks[1].pc = "done"
    /\ ret' = [NoRet EXCEPT !.op = "write_to",
                  !.status = IF results[1].res = "Panic" THEN "Panicked"
                             ELSE IF results[1].res = "Ok" THEN "Ok" ELSE "Err",
                  !.error = <<results[1].res>>,
                  !.keys = call.keys, !.msg = call.msg, !.results = results]
    /\ call' = Idle
    /\ UNCHANGED <<server_addresses, connections, dials, runNo, callNo, tasks,
                   results, lock, stream, received, acquired,
                   msgOf,
                   codecVars>>

\* ----------------------------------------------------- Client::write_many
\* peer_addrs.map(|a| self.connections.get(a).unwrap().clone()).collect()
ResolveFirst(keys) ==
    [i \in 1..Len(keys) |-> CHOOSE c \in Get(keys[1]) : TRUE]
Resolve(keys) == [i \in 1..Len(keys) |-> CHOOSE c \in Get(keys[i]) : TRUE]

\* write_many up to writes.await: every key is resolved (unwrap panics on an
\* absent one), then one write task is spawned per connection.
StartWrites(op, keys, msg) ==
    /\ callNo' = callNo + 1
    /\ msgOf' = [msgOf EXCEPT ![callNo + 1] = msg]
    /\ results' = <<>>
    /\ IF \A i \in 1..Len(keys) : Get(keys[i]) # {}
       THEN /\ call' = [op |-> op, msg |-> msg, keys |-> keys]
            /\ tasks' = [i \in 1..Len(keys) |-> NewTask(Resolve(keys)[i])]
            /\ UNCHANGED ret
       ELSE /\ call' = Idle
            /\ tasks' = <<>>
            /\ ret' = [NoRet EXCEPT !.op = op, !.status = "Panicked",
                                    !.error = <<"unwrap on None">>,
                                    !.keys = keys, !.msg = msg]
    /\ UNCHANGED <<server_addresses, connections, dials, runNo, lock, stream,
                   received, acquired,
                   codecVars>>

WriteManyCall(keys, msg) ==
    /\ NewCall
    /\ StartWrites("write_many", keys, msg)

\* buffer_unordered(connections.len()) has yielded every result (it yields
\* nothing, and never ends, with a limit of 0); a panic of the un-nesting
\* closure unwinds out of write_many.
BufferDone ==
    \/ \E k \in 1..Len(results) : results[k].res = "Panic"
    \/ Len(tasks) > 0 /\ \A i \in 1..Len(tasks) : tasks[i].pc = "done"

WriteManyReturn ==
    /\ call.op \in {"write_many", "broadcast"}
    /\ BufferDone
    /\ ret' = [NoRet EXCEPT !.op = call.op,
                  !.status = IF \E k \in 1..Len(results) : results[k].res = "Panic"
                             THEN "Panicked" ELSE "Ok",
                  !.keys = call.keys, !.msg = call.msg, !.results = results]
    /\ call' = Idle
    /\ UNCHANGED <<server_addresses, connections, dials, runNo, callNo, tasks,
                   results, lock, stream, received, acquired,
                   msgOf,
                   codecVars>>

\* ------------------------------------------------------ Client::broadcast
\* self.connections.iter().map(|entry| entry.key().to_string()): the keys of
\* the table.
PeerKeysButFirst == {e.key : e \in {x \in connections : x.key[2] > 1}}
PeerKeys == {e.key : e \in connections}

\* The vectors listing each element of S once (DashMap iterates in an
\* unspecified order).
Orderings(S) ==
    {f \in [1..Cardinality(S) -> S] : \A x \in S : \E i \in DOMAIN f : f[i] = x}

BroadcastCall(msg) ==
    /\ NewCall
    /\ \E keys \in Orderings(PeerKeys) : StartWrites("broadcast", keys, msg)

\* ------------------------------------------------------------ environment
InTable(c) == \E e \in connections : e.conn = c

\* The peer (or the network) closes the stream of a connection.
StreamBreak(c) ==
    /\ InTable(c)
    /\ stream[c] \in {"open", "hung"}
    /\ stream' = [stream EXCEPT ![c] = "broken"]
    /\ UNCHANGED <<server_addresses, connections, dials, runNo, callNo, call,
                   tasks, results, ret, lock, received, acquired,
                   msgOf,
                   codecVars>>

\* The peer stops reading: writes to the stream make no progress.
StreamHang(c) ==
    /\ InTable(c)
    /\ stream[c] = "open"
    /\ stream' = [stream EXCEPT ![c] = "hung"]
    /\ UNCHANGED <<server_addresses, connections, dials, runNo, callNo, call,
                   tasks, results, ret, lock, received, acquired,
                   msgOf,
                   codecVars>>

Next ==
    \/ RunCall
    \/ \E r \in 1..MaxRuns, i \in 1..MaxServers : DialConnect(r, i)
    \/ \E r \in 1..MaxRuns, i \in 1..MaxServers : DialError(r, i)
    \/ \E r \in 1..MaxRuns, i \in 1..MaxServers : DialPanic(r, i)
    \/ RunReturn
    \/ RunAbort
    \/ \E key \in Keys, msg \in Msgs : WriteToCall(key, msg)
    \/ WriteToReturn
    \/ \E keys \in TargetLists, msg \in Msgs : WriteManyCall(keys, msg)
    \/ \E msg \in Msgs : BroadcastCall(msg)
    \/ WriteManyReturn
    \/ \E i \in DOMAIN tasks : LockAcquire(i)
    \/ \E i \in DOMAIN tasks : WriteByte(i)
    \/ \E i \in DOMAIN tasks : WriteFail(i)
    \/ \E i \in DOMAIN tasks : WritePanic(i)
    \/ \E c \in Conn : StreamBreak(c)
    \/ \E c \in Conn : StreamHang(c)

Spec == Init /\ [][Next]_vars

\* =================================================== protocol/response.rs
\* The bytes of a JSON text are kept at the granularity of its lexical
\* tokens: a Vec<u8> is a sequence of tokens, a string or a number being one
\* token; `junk` stands for bytes that begin no JSON token.  (No input of
\* this model holds a `[`.)
Tok(k) == [k |-> k, s |-> "", n |-> 0]
LBrace == Tok("{")
RBrace == Tok("}")
Colon == Tok(":")
Comma == Tok(",")
True == Tok("true")
False == Tok("false")
Null == Tok("null")
Junk == Tok("junk")
Str(s) == [k |-> "str", s |-> s, n |-> 0]
Num(n) == [k |-> "num", s |-> "", n |-> n]

\* enum Outcome: a value carries its variant in `type`; the fields of the
\* other variants stay at their defaults.  An Option<String> is <<>> for
\* None and <<s>> for Some(s).
OfGet(value) ==
    [type |-> "OfGet", value |-> value, was_modified |-> FALSE, msg |-> ""]
OfSet(was_modified) ==
    [type |-> "OfSet", value |-> <<>>, was_modified |-> was_modified, msg |-> ""]
Error(msg) ==
    [type |-> "Error", value |-> <<>>, was_modified |-> FALSE, msg |-> msg]
Invalid(msg) ==
    [type |-> "Invalid", value |-> <<>>, was_modified |-> FALSE, msg |-> msg]
Variants == {"OfGet", "OfSet", "Error", "Invalid"}

\* The ids and strings the values are drawn from (42, "bar" and "whoops!"
\* are those of the tests).
Ids == {0, 42}
Values == {"", "bar"}
Messages == {"", "whoops!"}
Outcome ==
    {OfGet(<<>>)} \cup {OfGet(<<s>>) : s \in Values}
        \cup {OfSet(b) : b \in BOOLEAN}
        \cup {Error(m) : m \in Messages} \cup {Invalid(m) : m \in Messages}
Response == [id : Ids, outcome : Outcome]

\* ------------------------------------------- serde_json::to_vec(&self)
Member(name, value) == <<Str(name), Colon>> \o value
RECURSIVE Join(_)
Join(ms) ==
    IF ms = <<>> THEN <<>>
    ELSE IF Len(ms) = 1 THEN ms[1]
    ELSE ms[1] \o <<Comma>> \o Join(Tail(ms))
Object(ms) == <<LBrace>> \o Join(ms) \o <<RBrace>>

\* Option<String>: None is written null, Some(s) the string s.
NoneAsEmptyString(value) ==
    IF value = <<>> THEN <<Str("")>> ELSE <<Str(value[1])>>
OptionToken(value) == IF value = <<>> THEN <<Null>> ELSE <<Str(value[1])>>
BoolToken(b) == IF b THEN <<True>> ELSE <<False>>

\* #[serde(tag = "type")]: the variant name under "type", then the fields of
\* the variant.
VariantFields(o) ==
    CASE o.type = "OfGet" -> <<Member("value", OptionToken(o.value))>>
      [] o.type = "OfSet" -> <<Member("was_modified", BoolToken(o.was_modified))>>
      [] OTHER -> <<Member("msg", <<Str(o.msg)>>)>>
OutcomeMembers(o) == <<Member("type", <<Str(o.type)>>)>> \o VariantFields(o)
ResponseMembers(v) ==
    <<Member("id", <<Num(v.id)>>), Member("outcome", Object(OutcomeMembers(v.outcome)))>>

\* impl Into<Vec<u8>> for Response.
into(v) == Object(ResponseMembers(v))

\* ------------------------------------------ serde_json::from_slice(&bs)
\* A parsed JSON value: a scalar token, or an object with its members in
\* the order of the text.
Scalars == {"str", "num", "true", "false", "null"}
JsonValue(k, s, n, members) == [k |-> k, s |-> s, n |-> n, members |-> members]
SyntaxError == [ok |-> FALSE, val |-> JsonValue("null", "", 0, <<>>), next |-> 0]

\* The JSON value that starts at token i, and the index after it.
RECURSIVE ParseValue(_, _), ParseMembers(_, _, _)
ParseValue(toks, i) ==
    IF i > Len(toks) THEN SyntaxError
    ELSE IF toks[i].k \in Scalars
    THEN [ok |-> TRUE, next |-> i + 1,
          val |-> JsonValue(toks[i].k, toks[i].s, toks[i].n, <<>>)]
    ELSE IF toks[i].k = "{"
    THEN (IF i + 1 <= Len(toks) /\ toks[i + 1].k = "}"
          THEN [ok |-> TRUE, next |-> i + 2, val |-> JsonValue("obj", "", 0, <<>>)]
          ELSE ParseMembers(toks, i + 1, <<>>))
    ELSE SyntaxError
ParseMembers(toks, i, acc) ==
    IF i + 2 > Len(toks) \/ toks[i].k # "str" \/ toks[i + 1].k # ":"
    THEN SyntaxError
    ELSE LET v == ParseValue(toks, i + 2)
             ms == Append(acc, [name |-> toks[i].s, val |-> v.val])
         IN IF ~v.ok \/ v.next > Len(toks) THEN SyntaxError
            ELSE IF toks[v.next].k = "," THEN ParseMembers(toks, v.next + 1, ms)
            ELSE IF toks[v.next].k = "}"
            THEN [ok |-> TRUE, next |-> v.next + 1,
                  val |-> JsonValue("obj", "", 0, ms)]
            ELSE SyntaxError

\* ---------------------------------------- #[derive(Deserialize)], strict
Count(ms, name) == Cardinality({i \in DOMAIN ms : ms[i].name = name})
Field(ms, name) == ms[CHOOSE i \in DOMAIN ms : ms[i].name = name].val

\* #[serde(deny_unknown_fields)]: a member whose name is not a field of the
\* struct (or of the variant) is an error.
IgnoreUnknown(ms, known) == {}
UnknownFields(ms, known) == {i \in DOMAIN ms : ms[i].name \notin known}

VariantFieldNames(type) ==
    CASE type = "OfGet" -> {"value"}
      [] type = "OfSet" -> {"was_modified"}
      [] OTHER -> {"msg"}

Failed(err) == [err |-> err, outcome |-> Invalid(err)]
Parsed(outcome) == [err |-> "", outcome |-> outcome]

\* The fields of the variant `type`, from the members left once the tag is
\* taken out: a missing Option field is None, any other field is required.
DeserializeVariant(type, ms) ==
    LET fields == SelectSeq(ms, LAMBDA m : m.name \in VariantFieldNames(type))
    IN IF UnknownFields(ms, VariantFieldNames(type)) # {}
       THEN Failed("unknown field")
       ELSE IF Len(fields) > 1 THEN Failed("duplicate field")
       ELSE IF type = "OfGet"
       THEN (IF fields = <<>> \/ fields[1].val.k = "null" THEN Parsed(OfGet(<<>>))
             ELSE IF fields[1].val.k = "str"
             THEN Parsed(OfGet(<<fields[1].val.s>>))
             ELSE Failed("invalid type"))
       ELSE IF fields = <<>> THEN Failed("missing field")
       ELSE IF type = "OfSet"
       THEN (IF fields[1].val.k \in {"true", "false"}
             THEN Parsed(OfSet(fields[1].val.k = "true"))
             ELSE Failed("invalid type"))
       ELSE IF fields[1].val.k # "str" THEN Failed("invalid type")
       ELSE IF type = "Error" THEN Parsed(Error(fields[1].val.s))
       ELSE Parsed(Invalid(fields[1].val.s))

\* enum Outcome, internally tagged: the object is read whole, the member
\* "type" names the variant, the other members are the variant's fields.
DeserializeOutcome(v) ==
    IF v.k # "obj" THEN Failed("invalid type")
    ELSE IF Count(v.members, "type") = 0 THEN Failed("missing field")
    ELSE IF Count(v.members, "type") > 1 THEN Failed("duplicate field")
    ELSE IF Field(v.members, "type").k # "str" THEN Failed("invalid type")
    ELSE IF Field(v.members, "type").s \notin Variants
    THEN Failed("unknown variant")
    ELSE DeserializeVariant(Field(v.members, "type").s,
                            SelectSeq(v.members, LAMBDA m : m.name # "type"))

\* struct Response {id: u64, outcome: Outcome}.
DeserializeResponse(v) ==
    LET ms == v.members
        failed(err) == [err |-> err, value |-> NoResponse]
    IN IF v.k # "obj" THEN failed("invalid type")
       ELSE IF UnknownFields(ms, {"id", "outcome"}) # {}
       THEN failed("unknown field")
       ELSE IF Count(ms, "id") > 1 \/ Count(ms, "outcome") > 1
       THEN failed("duplicate field")
       ELSE IF Count(ms, "id") = 0 \/ Count(ms, "outcome") = 0
       THEN failed("missing field")
       ELSE IF Field(ms, "id").k # "num" THEN failed("invalid type")
       ELSE IF Field(ms, "id").n < 0 THEN failed("invalid value")
       ELSE LET o == DeserializeOutcome(Field(ms, "outcome"))
            IN IF o.err # "" THEN failed(o.err)
               ELSE [err |-> "",
                     value |-> [id |-> Field(ms, "id").n, outcome |-> o.outcome]]

\* serde_json::from_slice::<Response>: one value, then the end of input.
from_slice(bs) ==
    LET p == ParseValue(bs, 1)
    IN IF ~p.ok THEN [err |-> "syntax error", value |-> NoResponse]
       ELSE IF DeserializeResponse(p.val).err # "" THEN DeserializeResponse(p.val)
       ELSE IF p.next <= Len(bs)
       THEN [err |-> "trailing characters", value |-> NoResponse]
       ELSE DeserializeResponse(p.val)

\* Hasher::hash(&bs): a deterministic u64 of the bytes.
RECURSIVE Hash(_)
Hash(bs) ==
    IF bs = <<>> THEN 7
    ELSE LET t == bs[Len(bs)]
             code == CASE t.k = "{" -> 1 [] t.k = "}" -> 2 [] t.k = ":" -> 3
                       [] t.k = "," -> 4 [] t.k = "true" -> 5
                       [] t.k = "false" -> 6 [] t.k = "null" -> 7
                       [] t.k = "str" -> 8 [] t.k = "num" -> 9 + t.n
                       [] OTHER -> 0
         IN (Hash(SubSeq(bs, 1, Len(bs) - 1)) * 31 + code + 1) % 65521

\* The id of the Response that stands for undecodable bytes.
FallbackIdOfNothing(bs) == Hash(<<>>)
FallbackId(bs) == Hash(bs)

\* impl From<Vec<u8>> for Response.
from(bs) ==
    IF from_slice(bs).err = "" THEN from_slice(bs).value
    ELSE [id |-> FallbackId(bs), outcome |-> Invalid(from_slice(bs).err)]

\* ------------------------------------------------- the bytes given to from
InsertAt(ms, p, x) == SubSeq(ms, 1, p - 1) \o <<x>> \o SubSeq(ms, p, Len(ms))

\* A member no struct of the protocol declares, and what it may hold.
ExtraNames == {"extra", "value", "msg"}
ExtraValues == {<<Num(1)>>, <<Null>>, <<LBrace, RBrace>>}

\* The encoding of v with one more member at the top level, and with one
\* more member inside the outcome, the name being no field of the variant.
WithTopExtra(v) ==
    {Object(InsertAt(ResponseMembers(v), p, Member(name, x))) :
        p \in 1..3, name \in ExtraNames, x \in ExtraValues}
WithOutcomeExtra(v) ==
    {Object(<<Member("id", <<Num(v.id)>>),
              Member("outcome",
                     Object(InsertAt(OutcomeMembers(v.outcome), p, Member(name, x))))>>) :
        p \in 1..3, name \in ExtraNames \ VariantFieldNames(v.outcome.type),
        x \in ExtraValues}

\* The same members in another order: outcome before id, the tag last.
Reordered(v) ==
    {Object(<<ResponseMembers(v)[2], ResponseMembers(v)[1]>>),
     Object(<<Member("id", <<Num(v.id)>>),
              Member("outcome", Object(<<OutcomeMembers(v.outcome)[2],
                                         OutcomeMembers(v.outcome)[1]>>))>>)}

\* Texts that are not a Response: cut short, a token spoiled, bytes after
\* the value, a member missing, a negative id.
Truncated(v) == {SubSeq(into(v), 1, n) : n \in 0..(Len(into(v)) - 1)}
Spoiled(v) ==
    {[into(v) EXCEPT ![n] = t] : n \in 1..Len(into(v)), t \in {Junk, Num(-1)}}
Trailing(v) == {into(v) \o <<RBrace>>, into(v) \o into(v)}
Incomplete(v) ==
    {Object(<<ResponseMembers(v)[1]>>), Object(<<ResponseMembers(v)[2]>>),
     Object(<<Member("id", <<Num(v.id)>>),
              Member("outcome", Object(<<OutcomeMembers(v.outcome)[1]>>))>>),
     Object(<<Member("id", <<Num(v.id)>>),
              Member("outcome", Object(<<OutcomeMembers(v.outcome)[2]>>))>>)}

Inputs ==
    UNION {{into(v)} \cup WithTopExtra(v) \cup WithOutcomeExtra(v)
             \cup Reordered(v) \cup Truncated(v) \cup Spoiled(v)
             \cup Trailing(v) \cup Incomplete(v) : v \in Response}

\* ------------------------------------------------------- the conversions
\* let bs: Vec<u8> = response.into(): the value is consumed.
Encode ==
    /\ codecPc \in {"value", "decoded"}
    /\ wire' = into(resp)
    /\ origin' = resp
    /\ resp' = NoResponse
    /\ codecPc' = "bytes"
    /\ UNCHANGED clientVars

\* Response::from(bs); the bytes are kept for reference.
Decode ==
    /\ codecPc = "bytes"
    /\ resp' = from(wire)
    /\ codecPc' = "decoded"
    /\ UNCHANGED <<wire, origin, clientVars>>

\* A Response to encode, or bytes to decode, in hand.
CodecInit ==
    /\ NewClient
    /\ server_addresses = <<>>
    /\ origin = NoResponse
    /\ \/ codecPc = "value" /\ resp \in Response /\ wire = <<>>
       \/ codecPc = "bytes" /\ wire \in Inputs /\ resp = NoResponse

CodecNext == Encode \/ Decode

CodecSpec == CodecInit /\ [][CodecNext]_vars

\* ================================================================ claims
\* What a connection has received, by writer and by call.
FromWriter(c, w) == SelectSeq(received[c], LAMBDA e : e.w = w)
FromCall(c, n) == SelectSeq(received[c], LAMBDA e : e.w[1] = n)
BytesOf(s) == [k \in 1..Len(s) |-> s[k].b]
IsPrefix(p, s) == Len(p) <= Len(s) /\ \A k \in 1..Len(p) : p[k] = s[k]
Positions(c, w) == {k \in 1..Len(received[c]) : received[c][k].w = w}
Range(f) == {f[k] : k \in DOMAIN f}
HasEntry(key) == \E e \in connections : e.key = key
Returned(op) == call.op = "idle" /\ ret.op = op
WritingOn(c, w) ==
    /\ w[1] = callNo
    /\ w[2] \in DOMAIN tasks
    /\ tasks[w[2]].conn = c
    /\ tasks[w[2]].pc = "writing"
TasksOn(c) == {i \in DOMAIN tasks : tasks[i].conn = c}

\* C1: on every connection the bytes the peer has seen are a concatenation
\* of whole frames (message, then the newline delimiter), one per write, and
\* no byte of one frame lies inside another: the bytes of a writer are
\* contiguous and spell its frame, a frame is complete before the next one
\* begins, and only the last frame may be incomplete, when its write is
\* still in progress or the stream was closed under it.  A task holds the
\* lock of its connection for as long as it is writing.
C1_FramesWhole ==
    /\ \A i \in DOMAIN tasks :
          tasks[i].pc = "writing" => lock[tasks[i].conn] = Writer(i)
    /\ \A c \in Conn : \A k \in 1..Len(received[c]) :
        LET r == received[c]
            w == r[k].w
            frame == Frame(msgOf[w[1]])
            first == CHOOSE j \in Positions(c, w) :
                        \A m \in Positions(c, w) : j <= m
            pos == k - first + 1
        IN /\ \A j \in first..k : r[j].w = w
           /\ pos <= Len(frame)
           /\ r[k].b = frame[pos]
           /\ (k < Len(r) /\ r[k + 1].w # w) => pos = Len(frame)
           /\ (k = Len(r) /\ pos < Len(frame))
                 => (WritingOn(c, w) \/ stream[c] = "broken")

\* Two write tasks of one write_many, spawned for the same connection, have
\* both delivered their (two-byte) frames.
C1_Witness ==
    /\ Returned("write_many")
    /\ Len(ret.msg) >= 1
    /\ \E c \in Conn :
          /\ Cardinality(TasksOn(c)) >= 2
          /\ \A i \in TasksOn(c) : tasks[i].out = "Ok"
          /\ Len(FromCall(c, callNo)) >= 2 * Len(Frame(ret.msg))

\* The step in which write_to(key, _) is called.
WriteToStep(key) ==
    /\ callNo' = callNo + 1
    /\ \/ call'.op = "write_to" /\ call'.keys = <<key>>
       \/ call'.op = "idle" /\ ret'.op = "write_to" /\ ret'.keys = <<key>>

\* C2: a write_to whose key has no entry in the table returns at once the
\* NoPeerAtAddress error naming the key; the step starts no write, takes no
\* connection lock, delivers no byte and leaves the table as it was.
C2_NoPeerAtAddress ==
    [][\A key \in Keys :
          (WriteToStep(key) /\ ~HasEntry(key))
             => /\ call'.op = "idle"
                /\ ret'.status = "Err"
                /\ ret'.error = <<"NoPeerAtAddress", key>>
                /\ tasks' = <<>>
                /\ UNCHANGED <<connections, lock, stream, received, acquired>>
      ]_vars

\* write_to returned NoPeerAtAddress although the table holds connections
\* (under other keys).
C2_Witness ==
    /\ Returned("write_to")
    /\ ret.error[1] = "NoPeerAtAddress"
    /\ connections # {}

\* The bytes one finished fan-out left on connection c: exactly one frame
\* when a write task ran on c, the stream stayed open and the task did not
\* panic; never more than the bytes of one frame.
OneFrame(c) ==
    /\ IsPrefix(BytesOf(FromCall(c, callNo)), Frame(ret.msg))
    /\ (stream[c] = "open" /\ \A i \in TasksOn(c) : tasks[i].out # "Panicked")
          => BytesOf(FromCall(c, callNo)) = Frame(ret.msg)

\* C3: when broadcast(msg) has returned, every peer of the table (every
\* configured peer, when run() connected them all) has received from it
\* exactly one frame, msg followed by the delimiter, provided its stream is
\* still open and its write did not panic; no peer has received more than
\* one frame, and no connection outside the table a byte.
C3_BroadcastCompleteness ==
    (Returned("broadcast") /\ ret.status = "Ok") =>
        /\ \A e \in connections : OneFrame(e.conn)
        /\ \A c \in Conn : ~InTable(c) => FromCall(c, callNo) = <<>>
        /\ (runNo >= 1 /\ \A i \in 1..Len(server_addresses) :
                              dials[runNo][i] = "ok")
              => \A i \in 1..Len(server_addresses) :
                    HasEntry(to_string(server_addresses[i]))

\* run() connected both configured peers, and a broadcast of a non-empty
\* message has delivered one frame to each.
C3_Witness ==
    /\ Returned("broadcast")
    /\ Len(ret.msg) >= 1
    /\ Cardinality(connections) >= 2
    /\ runNo >= 1
    /\ \A i \in 1..Len(server_addresses) : dials[runNo][i] = "ok"
    /\ \A e \in connections :
          BytesOf(FromCall(e.conn, callNo)) = Frame(ret.msg)

\* C4: when write_many(peer_keys, msg) over distinct connected keys has
\* returned, every listed peer has received from it exactly one frame
\* (provided its stream is still open and its write did not panic) and
\* never more, and no connection of a peer that is not listed has received
\* a byte from it.
C4_WriteManyTargets ==
    (/\ Returned("write_many")
     /\ ret.status = "Ok"
     /\ \A i, j \in DOMAIN ret.keys : i # j => ret.keys[i] # ret.keys[j])
    => /\ \A e \in connections :
            IF e.key \in Range(ret.keys)
            THEN OneFrame(e.conn)
            ELSE FromCall(e.conn, callNo) = <<>>
       /\ \A c \in Conn : ~InTable(c) => FromCall(c, callNo) = <<>>

\* write_many over one of two connected peers delivered its frame to the
\* listed peer while the other peer's connection got nothing.
C4_Witness ==
    /\ Returned("write_many")
    /\ Len(ret.keys) = 1
    /\ Len(ret.msg) >= 1
    /\ \E e, f \in connections :
          /\ e.key = ret.keys[1]
          /\ f.key # e.key
          /\ BytesOf(FromCall(e.conn, callNo)) = Frame(ret.msg)
          /\ FromCall(f.conn, callNo) = <<>>

\* C5: a write_to(P, msg) for a connected P takes the lock of P's connection
\* once and of no other connection, writes on P's connection only, and when
\* it returns Ok the peer has received from it msg followed by one
\* delimiter (on an error, less than the frame).
C5_WriteToOnePeer ==
    \A key \in Keys :
        (/\ HasEntry(key)
         /\ \/ call.op = "write_to" /\ call.keys = <<key>>
            \/ Returned("write_to") /\ ret.keys = <<key>>)
        => \A c \in Conn :
              LET mine == BytesOf(FromCall(c, callNo))
                  locks == SelectSeq(acquired[c], LAMBDA w : w[1] = callNo)
                  msg == msgOf[callNo]
              IN
              IF [key |-> key, conn |-> c] \in connections
              THEN /\ Len(locks) <= 1
                   /\ IsPrefix(mine, Frame(msg))
                   /\ (Returned("write_to") /\ ret.status = "Ok")
                         => mine = Frame(msg)
                   /\ (Returned("write_to") /\ ret.status # "Ok")
                         => mine # Frame(msg)
              ELSE /\ locks = <<>>
                   /\ mine = <<>>
                   /\ lock[c] = NoHolder

\* write_to returned Ok for one of two connected peers.
C5_Witness ==
    /\ Returned("write_to")
    /\ ret.status = "Ok"
    /\ Len(ret.msg) >= 1
    /\ Cardinality(connections) >= 2

\* The results the finished fan-out reports for its task i.
Spawning(op) == op \in {"write_many", "broadcast"}
ResultOf(i) ==
    {ret.results[k].res :
        k \in {m \in DOMAIN ret.results : ret.results[m].task = i}}

\* C6: when write_many or broadcast has spawned its write tasks, the failure
\* of a task (an I/O error of its write, or a panic) is an error value in
\* the result of that task and nothing more: the call returns normally, only
\* after every task has finished, with one result per task, and every task
\* whose write succeeded is reported Ok.
C6_FailureIsolated ==
    (/\ call.op = "idle"
     /\ Spawning(ret.op)
     /\ ret.error # <<"unwrap on None">>)
    => /\ ret.status = "Ok"
       /\ Len(ret.results) = Len(tasks)
       /\ \A i \in DOMAIN tasks :
             /\ tasks[i].pc = "done"
             /\ tasks[i].out = "Ok" => ResultOf(i) = {"Ok"}
             /\ tasks[i].out = "IoErr" => ResultOf(i) = {"Err(Io)"}
             /\ tasks[i].out = "Panicked" => ResultOf(i) = {"Err(JoinError)"}

\* A fan-out returned with one task panicked and a sibling that delivered
\* its whole frame.
C6_Witness ==
    /\ call.op = "idle"
    /\ Spawning(ret.op)
    /\ \E i, j \in DOMAIN tasks :
          /\ tasks[i].out = "Panicked"
          /\ tasks[j].out = "Ok"
          /\ Len(FromCall(tasks[j].conn, callNo)) >= 2

\* C7: when run() has returned, none of the dial tasks it spawned is still
\* running, whatever their outcomes.
C7_RunJoinsAllDials ==
    Returned("run") => Running(runNo) = {}

\* The dial tasks a run() spawns for address a.
DialsOf(a) == {i \in 1..Len(server_addresses) : server_addresses[i] = a}

\* C8: when run() has completed, the table holds an entry for every
\* configured peer with a successful dial and none for a peer whose dials
\* failed; when all dials succeeded over distinct addresses the table has as
\* many entries as there are configured peers.
C8_TableAfterRun ==
    Returned("run") =>
        /\ \A i \in 1..Len(server_addresses) :
              /\ dials[runNo][i] = "ok"
                    => HasEntry(to_string(server_addresses[i]))
              /\ (\A j \in DialsOf(server_addresses[i]) :
                        dials[runNo][j] \in {"err", "panicked"})
                    => ~HasEntry(to_string(server_addresses[i]))
        /\ (/\ \A i \in 1..Len(server_addresses) : dials[runNo][i] = "ok"
            /\ \A i, j \in 1..Len(server_addresses) :
                  i # j => server_addresses[i] # server_addresses[j])
              => Cardinality(connections) = Len(server_addresses)

\* C9: a write task on connection B can take B's lock whenever B's lock is
\* free and can advance its write whenever B's stream is open, whatever the
\* state of any other connection; and a writer holds no lock but that of its
\* own connection.
C9_PeerIsolation ==
    \A i \in DOMAIN tasks :
        /\ (tasks[i].pc = "waiting" /\ lock[tasks[i].conn] = NoHolder)
              => ENABLED LockAcquire(i)
        /\ (tasks[i].pc = "writing" /\ stream[tasks[i].conn] = "open")
              => ENABLED WriteByte(i)
        /\ \A c \in Conn :
              (call.op # "idle" /\ lock[c] = Writer(i)) => c = tasks[i].conn

\* The write to one peer is blocked on a hung stream, holding that peer's
\* lock, and the concurrent write to another peer has completed.
C9_Witness ==
    \E i, j \in DOMAIN tasks :
        /\ tasks[i].conn # tasks[j].conn
        /\ tasks[i].pc = "writing"
        /\ stream[tasks[i].conn] = "hung"
        /\ lock[tasks[i].conn] = Writer(i)
        /\ tasks[j].out = "Ok"

\* C10: on every connection, the frames are in the order in which their
\* writers acquired the lock: when W1 acquired it before W2, every byte of
\* W1 precedes every byte of W2, and once W2 has a byte on the stream W1's
\* frame is there complete (or W1 panicked before writing any of it).
C10_AcquisitionOrder ==
    \A c \in Conn :
        /\ \A k \in 1..Len(received[c]) : received[c][k].w \in Range(acquired[c])
        /\ \A a, b \in 1..Len(acquired[c]) :
              a < b =>
                 LET w1 == acquired[c][a]
                     w2 == acquired[c][b]
                 IN /\ w1 # w2
                    /\ \A x \in Positions(c, w1), y \in Positions(c, w2) : x < y
                    /\ Positions(c, w2) # {} =>
                          \/ BytesOf(FromWriter(c, w1)) = Frame(msgOf[w1[1]])
                          \/ FromWriter(c, w1) = <<>>

\* Two writers took the lock of one connection one after the other and both
\* frames are on the stream.
C10_Witness ==
    \E c \in Conn :
        /\ Len(acquired[c]) >= 2
        /\ Len(msgOf[acquired[c][1][1]]) >= 1
        /\ Positions(c, acquired[c][1]) # {}
        /\ Positions(c, acquired[c][2]) # {}
        /\ acquired[c][1][1] = acquired[c][2][1]

\* C11: a write_many whose peer_addrs names at least one key that is not in
\* the table fails fast: the call panics while it resolves the keys, before
\* any write task is spawned, so it leaves no task, no result, no lock taken
\* and no byte on any connection, the connections of the listed keys that
\* are present included.  A write_many in progress has resolved every key.
C11_FailFast ==
    /\ call.op = "write_many" => \A i \in DOMAIN call.keys : HasEntry(call.keys[i])
    /\ (Returned("write_many") /\ \E i \in DOMAIN ret.keys : ~HasEntry(ret.keys[i]))
          => /\ ret.status = "Panicked"
             /\ ret.error = <<"unwrap on None">>
             /\ tasks = <<>>
             /\ results = <<>>
             /\ \A c \in Conn :
                   /\ FromCall(c, callNo) = <<>>
                   /\ \A k \in DOMAIN acquired[c] : acquired[c][k][1] # callNo
                   /\ lock[c] = NoHolder

\* write_many was given a key of the table together with an absent one, and
\* panicked; the connection of the present key is open.
C11_Witness ==
    /\ Returned("write_many")
    /\ ret.status = "Panicked"
    /\ \E i, j \in DOMAIN ret.keys :
          /\ ~HasEntry(ret.keys[j])
          /\ \E e \in connections : e.key = ret.keys[i] /\ stream[e.conn] = "open"

\* C13: in every reachable state the table holds at most one Connection per
\* key, also after run() was called again and when server_addresses lists
\* an address twice: the later insert replaces the entry of the key.  After
\* a run() that returned Ok, the entry of a key is the connection of the
\* last successful dial of that run to the key's address.
C13_OneConnectionPerKey ==
    /\ \A e, f \in connections : e.key = f.key => e = f
    /\ (Returned("run") /\ ret.status = "Ok") =>
          \A i \in 1..Len(server_addresses) :
             (/\ dials[runNo][i] = "ok"
              /\ \A j \in (i + 1)..Len(server_addresses) :
                    server_addresses[j] = server_addresses[i]
                       => dials[runNo][j] # "ok")
                => [key |-> to_string(server_addresses[i]), conn |-> <<runNo, i>>]
                      \in connections

\* An entry was replaced: a run() returned Ok after two of its dials to one
\* address succeeded, or after its dial succeeded for a key that an
\* earlier run() had already inserted.
C13_Witness ==
    /\ Returned("run")
    /\ ret.status = "Ok"
    /\ \E i \in 1..Len(server_addresses) :
          /\ dials[runNo][i] = "ok"
          /\ \/ \E j \in 1..(i - 1) :
                   /\ server_addresses[j] = server_addresses[i]
                   /\ dials[runNo][j] = "ok"
             \/ /\ runNo > 1
                /\ dials[runNo - 1][i] = "ok"
                /\ Panicked(runNo - 1) = {}

\* The frame of msg, n times over.
RECURSIVE Frames(_, _)
Frames(msg, n) == IF n = 0 THEN <<>> ELSE Frame(msg) \o Frames(msg, n - 1)
ResultIndex(i) == CHOOSE k \in DOMAIN results : results[k].task = i

\* C17: a write_many whose keys are all in the table spawns one write task
\* per entry of peer_keys, a key listed k times giving k tasks on its
\* connection; while it runs, the results collected are those of the tasks
\* that have finished, each once; it returns once every task has finished,
\* with exactly one result per entry, the result of a task being that of its
\* write.  The results are in completion order, which need not be the input
\* order: of two tasks on one connection, the one that took the lock first
\* comes first.  A peer listed k times whose writes all returned Ok has
\* received k whole frames from the call.
C17_OneResultPerEntry ==
    LET keys == IF call.op = "write_many" THEN call.keys ELSE ret.keys
    IN (\/ call.op = "write_many"
        \/ Returned("write_many") /\ ret.status = "Ok")
       => /\ Len(tasks) = Len(keys)
          /\ \A i \in DOMAIN tasks :
                [key |-> keys[i], conn |-> tasks[i].conn] \in connections
          /\ \A i \in DOMAIN tasks :
                Cardinality({k \in DOMAIN results : results[k].task = i})
                   = (IF tasks[i].pc = "done" THEN 1 ELSE 0)
          /\ \A k \in DOMAIN results :
                /\ results[k].task \in DOMAIN tasks
                /\ results[k].res = UnNest(tasks[results[k].task].out)
          /\ \A c \in Conn : \A a, b \in DOMAIN acquired[c] :
                (/\ a < b
                 /\ acquired[c][a][1] = callNo
                 /\ acquired[c][b][1] = callNo
                 /\ tasks[acquired[c][b][2]].pc = "done")
                => ResultIndex(acquired[c][a][2]) < ResultIndex(acquired[c][b][2])
          /\ Returned("write_many") =>
                /\ ret.results = results
                /\ Len(ret.results) = Len(ret.keys)
                /\ \A i \in DOMAIN tasks : tasks[i].pc = "done"
                /\ \A c \in Conn :
                      (\A i \in TasksOn(c) : tasks[i].out = "Ok")
                         => BytesOf(FromCall(c, callNo))
                               = Frames(ret.msg, Cardinality(TasksOn(c)))

\* write_many over a key listed twice has returned two Ok results, the
\* result of the second entry first, and the peer has received two frames.
C17_Witness ==
    /\ Returned("write_many")
    /\ Len(ret.keys) = 2
    /\ ret.keys[1] = ret.keys[2]
    /\ Len(ret.msg) >= 1
    /\ Len(ret.results) = 2
    /\ ret.results[1] = [task |-> 2, res |-> "Ok"]
    /\ ret.results[2] = [task |-> 1, res |-> "Ok"]
    /\ \E c \in Conn : BytesOf(FromCall(c, callNo)) = Frames(ret.msg, 2)

\* C18: write_many and broadcast terminate whenever every write they started
\* terminates, whatever the size of the target set: in a state where every
\* write task of the call has finished (which is every state of a call with
\* an empty target set) the call can return, and a call over an empty set
\* returns the empty list of results.
C18_FanOutTerminates ==
    /\ (Spawning(call.op) /\ \A i \in DOMAIN tasks : tasks[i].pc = "done")
          => ENABLED WriteManyReturn
    /\ (Spawning(ret.op) /\ Returned(ret.op) /\ ret.keys = <<>>)
          => ret.status = "Ok" /\ ret.results = <<>>

\* C19: a write task never holds more than one connection lock, and the
\* holder of a connection's lock is always a task that is in its write on
\* that connection: a task that waits for a lock holds none, and a task
\* whose write has returned, with success or with a failure, holds none, so
\* a failed write does not leave the lock taken.  Hence no cycle of waiting
\* on connection locks: a waiting task either can take the lock or waits for
\* a task that is writing, and a writing task whose stream is not hung can
\* take its next step.
C19_LocksReleased ==
    /\ \A c, d \in Conn :
          (lock[c] # NoHolder /\ lock[c] = lock[d]) => c = d
    /\ \A c \in Conn : lock[c] # NoHolder => WritingOn(c, lock[c])
    /\ \A i \in DOMAIN tasks :
          /\ tasks[i].pc \in {"waiting", "done"}
                => \A c \in Conn : lock[c] # Writer(i)
          /\ tasks[i].pc = "waiting"
                => \/ ENABLED LockAcquire(i)
                   \/ \E j \in DOMAIN tasks :
                         /\ lock[tasks[i].conn] = Writer(j)
                         /\ tasks[j].pc = "writing"
          /\ (tasks[i].pc = "writing" /\ stream[tasks[i].conn] # "hung")
                => ENABLED (WriteByte(i) \/ WriteFail(i))

\* A write on a connection failed (I/O error or panic) and another task of
\* the call then took the lock of that connection.
C19_Witness ==
    \E c \in Conn : \E a, b \in DOMAIN acquired[c] :
        /\ a < b
        /\ acquired[c][a][1] = callNo
        /\ acquired[c][b][1] = callNo
        /\ tasks[acquired[c][a][2]].out \in {"IoErr", "Panicked"}
        /\ lock[c] = acquired[c][b]

\* C20: write_to, write_many and broadcast never insert, remove or replace
\* an entry of the table, whether they succeed or fail: the table changes
\* only in the step in which a run() returns Ok, and that step only
\* inserts: no key of the table is removed, and every entry that is new is
\* the connection of a successful dial of that run, under the key of the
\* address it dialled.
C20_OnlyRunInserts ==
    [][connections' # connections =>
          /\ call.op = "run"
          /\ call'.op = "idle"
          /\ ret'.op = "run"
          /\ ret'.status = "Ok"
          /\ \A e \in connections : \E f \in connections' : f.key = e.key
          /\ \A f \in connections' \ connections :
                /\ f.conn[1] = runNo
                /\ f.conn[2] \in 1..Len(server_addresses)
                /\ dials[runNo][f.conn[2]] = "ok"
                /\ f.key = to_string(server_addresses[f.conn[2]])]_vars

\* A write to a connected peer failed with an I/O error, the call has
\* returned, and the entry of the peer is in the table as before.
C20_Witness ==
    /\ ret.op \in {"write_to", "write_many", "broadcast"}
    /\ Returned(ret.op)
    /\ \E i \in DOMAIN tasks :
          /\ tasks[i].out = "IoErr"
          /\ [key |-> ret.keys[i], conn |-> tasks[i].conn] \in connections

\* A Response value: a u64 id and an outcome of one of the four variants.
IsResponse(r) ==
    /\ r.id \in Nat
    /\ \/ r.outcome \in {OfSet(TRUE), OfSet(FALSE)}
       \/ r.outcome \in {OfGet(r.outcome.value), Error(r.outcome.msg),
                         Invalid(r.outcome.msg)}
    /\ r.outcome.type = "OfGet" => Len(r.outcome.value) <= 1

\* C14: decoding is total: Response::from returns a Response for every byte
\* sequence, and for every byte sequence that does not decode strictly as a
\* Response the value returned has the Invalid outcome, carrying the text of
\* the decode error, and the id Hasher::hash of those bytes.
C14_DecodeTotal ==
    /\ codecPc = "bytes" => IsResponse(from(wire))
    /\ codecPc = "decoded" =>
          /\ IsResponse(resp)
          /\ from_slice(wire).err # "" =>
                /\ resp.outcome = Invalid(from_slice(wire).err)
                /\ resp.id = Hash(wire)

\* A Response encoding cut short after its id member has been decoded: the
\* value is Invalid with the hash of the cut bytes as its id.
C14_Witness ==
    /\ codecPc = "decoded"
    /\ \E v \in Response :
          /\ wire = SubSeq(into(v), 1, 5)
          /\ resp = [id |-> Hash(wire), outcome |-> Invalid("syntax error")]
          /\ resp.id # v.id

\* C15: every Response value, whatever its id and whichever of the variants
\* OfGet, OfSet, Error and Invalid its outcome is, is decoded from its own
\* encoding as the same value.
C15_RoundTrip ==
    (codecPc = "decoded" /\ origin # NoResponse)
        => /\ wire = into(origin)
           /\ resp = origin

\* Values of each variant have made the round trip, among them OfGet with
\* None and an Invalid that itself came from undecodable bytes.
C15_Witness ==
    /\ codecPc = "decoded"
    /\ origin # NoResponse
    /\ resp = origin
    /\ resp.outcome = Invalid("syntax error")
    /\ resp.id = Hash(<<>>)

\* C16: the text of a well-formed Response with one more member that the
\* struct does not declare, at the top level or inside the outcome, is
\* rejected by the strict decode: it decodes to the Invalid outcome with
\* the unknown-field error and the hash of the text as id, never to the
\* Response it would be without the member.
C16_UnknownFieldRejected ==
    codecPc = "decoded" =>
        \A v \in Response :
            wire \in WithTopExtra(v) \cup WithOutcomeExtra(v)
               => /\ resp = [id |-> Hash(wire), outcome |-> Invalid("unknown field")]
                  /\ resp # v

\* The text of an OfSet response with a member "extra" after was_modified,
\* inside the outcome, has been decoded to Invalid.
C16_Witness ==
    /\ codecPc = "decoded"
    /\ resp.outcome = Invalid("unknown field")
    /\ \E v \in Response :
          /\ v.outcome.type = "OfSet"
          /\ wire = Object(<<Member("id", <<Num(v.id)>>),
                             Member("outcome",
                                    Object(Append(OutcomeMembers(v.outcome),
                                                  Member("extra", <<Num(1)>>))))>>)

====
